---------------------------- MODULE Spec2Model ----------------------------
(***************************************************************************)
(* Model of mini_calc (src/src/mini_calc/app.py): a Tkinter window with    *)
(* two Entry fields, a StringVar shown by a Label, four operator buttons,  *)
(* a clear button and two key bindings.                                    *)
(*                                                                         *)
(* Texts are sequences of one-character strings.  Python floats are        *)
(* modelled as binary floating-point numbers of the IEEE 754 shape         *)
(* (signed zero, gradual underflow, round-to-nearest-even, overflow to     *)
(* infinity, NaN) whose precision and exponent range are bounded, because  *)
(* TLC integers have 32 bits.  A finite float is an integer count n of     *)
(* quanta 2^-FracBits.                                                     *)
(***************************************************************************)
EXTENDS Integers, Sequences, FiniteSets, TLC

VARIABLES entry_a, entry_b, result, focus, event, outcome

vars == <<entry_a, entry_b, result, focus, event, outcome>>

(* The program's own state: the two Entry texts, the StringVar, the focus. *)
progState == <<entry_a, entry_b, result, focus>>

-----------------------------------------------------------------------------
(* Bounds of the floating-point format and of the generated texts.         *)

Precision == 4

FracBits == 2

ExpSpan == 5

MaxLen == 2

-----------------------------------------------------------------------------
(* Floating-point values.                                                  *)

RECURSIVE Pow2(_)
Pow2(k) == IF k = 0 THEN 1 ELSE 2 * Pow2(k - 1)

(* Largest finite magnitude, in quanta. *)
MaxN == (Pow2(Precision) - 1) * Pow2(ExpSpan)

Fin(neg, n) == [kind |-> "fin", neg |-> neg, n |-> n]

Inf(neg) == [kind |-> "inf", neg |-> neg, n |-> 0]

NaN == [kind |-> "nan", neg |-> FALSE, n |-> 0]

RECURSIVE Step(_, _)
Step(q, s) == IF q \div s < Pow2(Precision) THEN s ELSE Step(q, 2 * s)

(* The float nearest to num/den quanta, ties to the even significand;     *)
(* a magnitude above the largest finite float becomes infinity.           *)
RoundRat(neg, num, den) ==
    LET s  == Step(num \div den, 1)
        d  == den * s
        m  == num \div d
        r  == num - m * d
        up == (2 * r > d) \/ (2 * r = d /\ m % 2 = 1)
        n  == (IF up THEN m + 1 ELSE m) * s
    IN  IF n > MaxN THEN Inf(neg) ELSE Fin(neg, n)

FNeg(x) == IF x.kind = "nan" THEN x ELSE [x EXCEPT !.neg = ~x.neg]

Signed(x) == IF x.neg THEN 0 - x.n ELSE x.n

(* a + b *)
FAdd(x, y) ==
    IF x.kind = "nan" \/ y.kind = "nan" THEN NaN
    ELSE IF x.kind = "inf" /\ y.kind = "inf"
         THEN (IF x.neg = y.neg THEN x ELSE NaN)
    ELSE IF x.kind = "inf" THEN x
    ELSE IF y.kind = "inf" THEN y
    ELSE LET sum == Signed(x) + Signed(y)
         IN  IF sum = 0 THEN Fin(x.neg /\ y.neg, 0)
             ELSE IF sum < 0 THEN RoundRat(TRUE, 0 - sum, 1)
             ELSE RoundRat(FALSE, sum, 1)

(* a - b *)
FSub(x, y) == FAdd(x, FNeg(y))

(* a * b *)
FMul(x, y) ==
    LET neg == (x.neg # y.neg)
    IN  IF x.kind = "nan" \/ y.kind = "nan" THEN NaN
        ELSE IF x.kind = "inf" \/ y.kind = "inf"
             THEN (IF (x.kind = "fin" /\ x.n = 0) \/ (y.kind = "fin" /\ y.n = 0)
                   THEN NaN ELSE Inf(neg))
        ELSE RoundRat(neg, x.n * y.n, Pow2(FracBits))

(* a / b for b # 0 *)
FDiv(x, y) ==
    LET neg == (x.neg # y.neg)
    IN  IF x.kind = "nan" \/ y.kind = "nan" THEN NaN
        ELSE IF x.kind = "inf"
             THEN (IF y.kind = "inf" THEN NaN ELSE Inf(neg))
        ELSE IF y.kind = "inf" THEN Fin(neg, 0)
        ELSE RoundRat(neg, x.n * Pow2(FracBits), y.n)

(* b == 0: true of both zeros, false of NaN. *)
EqZero(x) == x.kind = "fin" /\ x.n = 0

-----------------------------------------------------------------------------
(* Texts and float(text).  The alphabet of the model is lower case.        *)

Digits == {"0", "1", "2", "3", "4", "5", "6", "7", "8", "9"}

DigitVal(c) ==
    CASE c = "0" -> 0 [] c = "1" -> 1 [] c = "2" -> 2 [] c = "3" -> 3
      [] c = "4" -> 4 [] c = "5" -> 5 [] c = "6" -> 6 [] c = "7" -> 7
      [] c = "8" -> 8 [] c = "9" -> 9

(* Mutant: the commas are dropped. *)
replace_Drop(t) == SelectSeq(t, LAMBDA c : c # ",")

(* text.replace(",", "."): every comma becomes a period. *)
replace(t) == [i \in 1..Len(t) |-> IF t[i] = "," THEN "." ELSE t[i]]

RECURSIVE LStrip(_)
LStrip(t) == IF t # <<>> /\ Head(t) = " " THEN LStrip(Tail(t)) ELSE t

RECURSIVE RStrip(_)
RStrip(t) ==
    IF t # <<>> /\ t[Len(t)] = " " THEN RStrip(SubSeq(t, 1, Len(t) - 1)) ELSE t

Strip(t) == RStrip(LStrip(t))

(* An underscore stands only between two digits. *)
UnderscoresOk(t) ==
    \A i \in 1..Len(t) :
        t[i] = "_" => /\ i > 1 /\ t[i - 1] \in Digits
                      /\ i < Len(t) /\ t[i + 1] \in Digits

IsDigitChar(c) == c \in Digits

NotUnderscore(c) == c # "_"

AllDigits(t) == t # <<>> /\ \A i \in 1..Len(t) : t[i] \in Digits

RECURSIVE DigitsValue(_)
DigitsValue(t) ==
    IF t = <<>> THEN 0
    ELSE 10 * DigitsValue(SubSeq(t, 1, Len(t) - 1)) + DigitVal(t[Len(t)])

(* Index of the first occurrence of c in t, or 0. *)
IndexOf(t, c) ==
    IF \E i \in 1..Len(t) : t[i] = c
    THEN CHOOSE i \in 1..Len(t) : t[i] = c /\ \A j \in 1..(i - 1) : t[j] # c
    ELSE 0

HasSign(t) == t # <<>> /\ Head(t) \in {"+", "-"}

Unsigned(t) == IF HasSign(t) THEN Tail(t) ELSE t

(* digits [. [digits]] | . digits *)
MantissaOk(m) ==
    /\ \A i \in 1..Len(m) : m[i] \in Digits \cup {"."}
    /\ Cardinality({i \in 1..Len(m) : m[i] = "."}) <= 1
    /\ \E i \in 1..Len(m) : m[i] \in Digits

(* 10^x, no longer multiplied once it exceeds cap. *)
RECURSIVE Pow10Cap(_, _)
Pow10Cap(x, cap) ==
    IF x = 0 THEN 1
    ELSE LET p == Pow10Cap(x - 1, cap) IN IF p > cap THEN p ELSE 10 * p

(* The float nearest to d * 10^x. *)
Decimal(neg, d, x) ==
    IF d = 0 THEN Fin(neg, 0)
    ELSE IF x >= 0
         THEN LET p == Pow10Cap(x, MaxN)
              IN  IF p > MaxN \/ d > MaxN THEN Inf(neg)
                  ELSE RoundRat(neg, d * p * Pow2(FracBits), 1)
         ELSE LET q == d * Pow2(FracBits)
                  p == Pow10Cap(0 - x, 2 * q)
              IN  IF p > 2 * q THEN Fin(neg, 0) ELSE RoundRat(neg, q, p)

ValueError == [exc |-> "ValueError", val |-> NaN]

Parsed(v) == [exc |-> "none", val |-> v]

(* float(t) of a str t: the parsed float, or ValueError. *)
PyFloat(t) ==
    LET s    == Strip(t)
        u    == SelectSeq(s, NotUnderscore)
        neg  == u # <<>> /\ Head(u) = "-"
        body == Unsigned(u)
        ei   == IndexOf(body, "e")
        mant == IF ei = 0 THEN body ELSE SubSeq(body, 1, ei - 1)
        expo == IF ei = 0 THEN <<>> ELSE SubSeq(body, ei + 1, Len(body))
        edig == Unsigned(expo)
        e    == IF ei = 0 THEN 0
                ELSE IF expo # <<>> /\ Head(expo) = "-" THEN 0 - DigitsValue(edig)
                ELSE DigitsValue(edig)
        di   == IndexOf(mant, ".")
        frac == IF di = 0 THEN 0 ELSE Len(mant) - di
    IN  IF ~UnderscoresOk(s) THEN ValueError
        ELSE IF body \in {<<"i", "n", "f">>,
                          <<"i", "n", "f", "i", "n", "i", "t", "y">>}
             THEN Parsed(Inf(neg))
        ELSE IF body = <<"n", "a", "n">> THEN Parsed(NaN)
        ELSE IF MantissaOk(mant) /\ (ei = 0 \/ AllDigits(edig))
             THEN Parsed(Decimal(neg, DigitsValue(SelectSeq(mant, IsDigitChar)),
                                 e - frac))
        ELSE ValueError

-----------------------------------------------------------------------------
(* calculate and clear.                                                    *)

(* What result.set is given: a str or a float. *)
StrVal(s) == [type |-> "str", str |-> s, float |-> NaN]

FloatVal(f) == [type |-> "float", str |-> "", float |-> f]

Return(v) == [exc |-> "none", res |-> v]

Raise(e) == [exc |-> e, res |-> StrVal("")]

(* a / b of two floats raises ZeroDivisionError for b == 0. *)
PyTrueDiv(a, b) ==
    IF b.kind = "fin" /\ b.n = 0 THEN Raise("ZeroDivisionError")
    ELSE Return(FloatVal(FDiv(a, b)))

(* Mutant: b == 0 is tested before the operator. *)
Dispatch_ZeroCheckFirst(op, a, b) ==
    IF EqZero(b) THEN Return(StrVal("Fehler: ÷0"))
    ELSE IF op = "+" THEN Return(FloatVal(FAdd(a, b)))
    ELSE IF op = "-" THEN Return(FloatVal(FSub(a, b)))
    ELSE IF op = "*" THEN Return(FloatVal(FMul(a, b)))
    ELSE IF op = "/" THEN PyTrueDiv(a, b)
    ELSE Return(StrVal("Unbekannter Operator"))

(* Mutant: the division tests a == 0. *)
Dispatch_TestsA(op, a, b) ==
    IF op = "+" THEN Return(FloatVal(FAdd(a, b)))
    ELSE IF op = "-" THEN Return(FloatVal(FSub(a, b)))
    ELSE IF op = "*" THEN Return(FloatVal(FMul(a, b)))
    ELSE IF op = "/"
         THEN (IF EqZero(a) THEN Return(StrVal("Fehler: ÷0")) ELSE PyTrueDiv(a, b))
    ELSE Return(StrVal("Unbekannter Operator"))

(* Mutant: the division has no test of b. *)
Dispatch_NoZeroCheck(op, a, b) ==
    IF op = "+" THEN Return(FloatVal(FAdd(a, b)))
    ELSE IF op = "-" THEN Return(FloatVal(FSub(a, b)))
    ELSE IF op = "*" THEN Return(FloatVal(FMul(a, b)))
    ELSE IF op = "/" THEN PyTrueDiv(a, b)
    ELSE Return(StrVal("Unbekannter Operator"))

(* The if/elif chain on op. *)
Dispatch(op, a, b) ==
    IF op = "+" THEN Return(FloatVal(FAdd(a, b)))
    ELSE IF op = "-" THEN Return(FloatVal(FSub(a, b)))
    ELSE IF op = "*" THEN Return(FloatVal(FMul(a, b)))
    ELSE IF op = "/"
         THEN (IF EqZero(b) THEN Return(StrVal("Fehler: ÷0")) ELSE PyTrueDiv(a, b))
    ELSE Return(StrVal("Unbekannter Operator"))

(* Mutant: b is parsed and a zero divisor reported before a is parsed. *)
TryBody_LateParse(op, ta, tb) ==
    LET a == PyFloat(replace(ta))
        b == PyFloat(replace(tb))
    IN  IF b.exc # "none" THEN Raise(b.exc)
        ELSE IF op = "/" /\ EqZero(b.val) THEN Return(StrVal("Fehler: ÷0"))
        ELSE IF a.exc # "none" THEN Raise(a.exc)
        ELSE Dispatch(op, a.val, b.val)

(* The body of the try statement, up to the value given to result.set. *)
TryBody(op, ta, tb) ==
    LET a == PyFloat(replace(ta))
        b == PyFloat(replace(tb))
    IN  IF a.exc # "none" THEN Raise(a.exc)
        ELSE IF b.exc # "none" THEN Raise(b.exc)
        ELSE Dispatch(op, a.val, b.val)

(* Mutant: an error text that is shown stays until the display is cleared. *)
Evaluate_Sticky(op, ta, tb, shown) ==
    LET t == TryBody(op, ta, tb)
    IN  IF shown.type = "str" /\ shown.str # ""
        THEN [res |-> shown, sets |-> 1, exc |-> "none"]
        ELSE IF t.exc = "none" THEN [res |-> t.res, sets |-> 1, exc |-> "none"]
        ELSE [res |-> StrVal("Ungültige Eingabe"), sets |-> 1, exc |-> "none"]

(* What one call of calculate leaves in the StringVar; an exception that  *)
(* is no ValueError leaves the handler and the StringVar is not set.      *)
Evaluate(op, ta, tb, shown) ==
    LET t == TryBody(op, ta, tb)
    IN  IF t.exc = "none" THEN [res |-> t.res, sets |-> 1, exc |-> "none"]
        ELSE IF t.exc = "ValueError"
             THEN [res |-> StrVal("Ungültige Eingabe"), sets |-> 1, exc |-> "none"]
        ELSE [res |-> shown, sets |-> 0, exc |-> t.exc]

(* Mutant: the texts with the commas replaced are written back. *)
calculate_WritesBack(op) ==
    LET r == Evaluate(op, entry_a, entry_b, result)
    IN  /\ result' = r.res
        /\ outcome' = [sets |-> r.sets, exc |-> r.exc]
        /\ entry_a' = replace(entry_a)
        /\ entry_b' = replace(entry_b)
        /\ UNCHANGED focus

calculate(op) ==
    LET r == Evaluate(op, entry_a, entry_b, result)
    IN  /\ result' = r.res
        /\ outcome' = [sets |-> r.sets, exc |-> r.exc]
        /\ UNCHANGED <<entry_a, entry_b, focus>>

(* Mutant: the second field is not emptied. *)
clear_KeepsB ==
    /\ entry_a' = <<>>
    /\ result' = StrVal("")
    /\ focus' = "entry_a"
    /\ outcome' = [sets |-> 1, exc |-> "none"]
    /\ UNCHANGED entry_b

clear ==
    /\ entry_a' = <<>>
    /\ entry_b' = <<>>
    /\ result' = StrVal("")
    /\ focus' = "entry_a"
    /\ outcome' = [sets |-> 1, exc |-> "none"]

-----------------------------------------------------------------------------
(* The widgets and bindings, and the user.                                 *)

(* The command of a button made by make_btn. *)
cmd(op) == IF op # "" THEN calculate(op) ELSE clear

make_btn(text, op) ==
    /\ event' = [kind |-> "button", name |-> text]
    /\ cmd(op)

ButtonAdd == make_btn("+", "+")

ButtonSub == make_btn("-", "-")

(* Mutant: the label of the button is passed as the operator. *)
ButtonMul_Label == make_btn("×", "×")

ButtonMul == make_btn("×", "*")

ButtonDiv == make_btn("÷", "/")

ButtonClear ==
    /\ event' = [kind |-> "button", name |-> "Clear (Esc)"]
    /\ clear

(* Mutant: Return repeats the operator of the button pressed last. *)
KeyReturn_LastOp ==
    /\ event' = [kind |-> "key", name |-> "<Return>"]
    /\ IF event = [kind |-> "button", name |-> "-"] THEN calculate("-")
       ELSE IF event = [kind |-> "button", name |-> "×"] THEN calculate("*")
       ELSE IF event = [kind |-> "button", name |-> "÷"] THEN calculate("/")
       ELSE calculate("+")

KeyReturn ==
    /\ event' = [kind |-> "key", name |-> "<Return>"]
    /\ calculate("+")

KeyEscape ==
    /\ event' = [kind |-> "key", name |-> "<Escape>"]
    /\ clear

(* Texts the user leaves in a field of the window. *)
FieldTexts ==
    { <<>>, <<"0">>, <<"-", "0">>, <<"5">>, <<"4">>, <<"3", ",", "1", "4">>,
      <<"a", "b", "c">>, <<"n", "a", "n">>, <<"9", "9">> }

(* The user edits the Entry that has the focus. *)
Edit(t) ==
    /\ focus \in {"entry_a", "entry_b"}
    /\ IF focus = "entry_a"
       THEN entry_a # t /\ entry_a' = t /\ UNCHANGED entry_b
       ELSE entry_b # t /\ entry_b' = t /\ UNCHANGED entry_a
    /\ event' = [kind |-> "edit", name |-> focus]
    /\ outcome' = [sets |-> 0, exc |-> "none"]
    /\ UNCHANGED <<result, focus>>

(* The user moves the focus to an Entry (a click) or to a button (Tab). *)
Widgets == {"entry_a", "entry_b", "button"}

Focus(w) ==
    /\ focus # w
    /\ focus' = w
    /\ event' = [kind |-> "focus", name |-> w]
    /\ outcome' = [sets |-> 0, exc |-> "none"]
    /\ UNCHANGED <<entry_a, entry_b, result>>

Init ==
    /\ entry_a = <<>>
    /\ entry_b = <<>>
    /\ result = StrVal("")
    /\ focus = "entry_a"
    /\ event = [kind |-> "start", name |-> ""]
    /\ outcome = [sets |-> 0, exc |-> "none"]

Next ==
    \/ \E t \in FieldTexts : Edit(t)
    \/ \E w \in Widgets : Focus(w)
    \/ ButtonAdd
    \/ ButtonSub
    \/ ButtonMul
    \/ ButtonDiv
    \/ ButtonClear
    \/ KeyReturn
    \/ KeyEscape

Spec == Init /\ [][Next]_vars

-----------------------------------------------------------------------------
(* One evaluation of every pair of texts.                                  *)

TextAlphabet == {"0", "5", ",", ".", "-"}

Generated == UNION {[1..k -> TextAlphabet] : k \in 0..MaxLen}

Examples ==
    { <<"1", "0">>, <<"4">>, <<"2">>, <<"3", ",", "1", "4">>, <<"3", ".", "1", "4">>,
      <<"a", "b", "c">>, <<"1", ",", "2", ",", "3">>, <<"1", ".", "2", ".", "3">>,
      <<"0", ".", "0">>, <<"0", ",", "0">>, <<"-", "0">>, <<"n", "a", "n">>,
      <<"i", "n", "f">>, <<"-", "i", "n", "f">>, <<"1", "e", "2">>,
      <<"1", "e", "-", "9">>, <<" ", "5", " ">>, <<"1", "_", "0">>, <<"9", "9">>,
      <<"+", "5">>, <<"5", "e">>, <<"5", " ", "5">>, <<"_", "5">> }

AllTexts == Generated \cup Examples

InitEval ==
    /\ entry_a \in AllTexts
    /\ entry_b \in AllTexts
    /\ result = StrVal("")
    /\ focus \in {"entry_a", "entry_b"}
    /\ event = [kind |-> "edit", name |-> focus]
    /\ outcome = [sets |-> 0, exc |-> "none"]

NextEval ==
    \/ ButtonAdd
    \/ ButtonSub
    \/ ButtonMul
    \/ ButtonDiv
    \/ KeyReturn

SpecEval == InitEval /\ [][NextEval]_vars

-----------------------------------------------------------------------------
(* Vocabulary of the properties.                                           *)

Button(name) == [kind |-> "button", name |-> name]

Key(name) == [kind |-> "key", name |-> name]

(* The event is one of the four operator triggers or the Enter key. *)
IsEval(ev) ==
    ev \in {Button("+"), Button("-"), Button("×"), Button("÷"), Key("<Return>")}

(* The event is the clear trigger or the Escape key. *)
IsClear(ev) == ev \in {Button("Clear (Esc)"), Key("<Escape>")}

(* The operator a trigger stands for. *)
OpOf(ev) ==
    IF ev = Button("-") THEN "-"
    ELSE IF ev = Button("×") THEN "*"
    ELSE IF ev = Button("÷") THEN "/"
    ELSE "+"

CommaToPeriod(t) == [i \in 1..Len(t) |-> IF t[i] = "," THEN "." ELSE t[i]]

(* The operand a text stands for. *)
Operand(t) == PyFloat(CommaToPeriod(t))

Parses(t) == Operand(t).exc = "none"

IsZeroValue(x) == x.kind = "fin" /\ x.n = 0

Number(x) == [type |-> "float", str |-> "", float |-> x]

DivisionByZero == StrVal("Fehler: ÷0")

InvalidInput == StrVal("Ungültige Eingabe")

Empty == StrVal("")

(* The float of a small integer k, and of k/2. *)
Whole(k) == Fin(FALSE, k * Pow2(FracBits))

Halves(k) == Fin(FALSE, k * Pow2(FracBits - 1))

Completed == outcome = [sets |-> 1, exc |-> "none"]

InitialState == << <<>>, <<>>, Empty, "entry_a" >>

ZeroSpellings == { <<"0">>, <<"0", ".", "0">>, <<"0", ",", "0">>, <<"-", "0">> }

Unparseable ==
    { <<>>, <<"a", "b", "c">>, <<"1", ",", "2", ",", "3">>, <<"1", ".", "2", ".", "3">>,
      <<"5", "e">>, <<"5", " ", "5">>, <<"_", "5">>, <<"-">>, <<".">>, <<",", ",">> }

CommaCount(t) == Cardinality({i \in 1..Len(t) : t[i] = ","})

-----------------------------------------------------------------------------
(* C1: on operands that both parse, Add shows Number(a + b), Subtract      *)
(* Number(a - b) and Multiply Number(a * b); none of the three shows       *)
(* DivisionByZero or InvalidInput, also when b is zero.                    *)
C1_ArithmeticOnParseable ==
    (IsEval(event) /\ OpOf(event) # "/" /\ Parses(entry_a) /\ Parses(entry_b)) =>
        LET a  == Operand(entry_a).val
            b  == Operand(entry_b).val
            op == OpOf(event)
        IN  /\ Completed
            /\ result = Number(IF op = "+" THEN FAdd(a, b)
                               ELSE IF op = "-" THEN FSub(a, b) ELSE FMul(a, b))
            /\ (entry_a = <<"1", "0">> /\ entry_b = <<"4">>) =>
                   result = Number(Whole(IF op = "+" THEN 14
                                       ELSE IF op = "-" THEN 6 ELSE 40))
            /\ (entry_a = <<"5">> /\ entry_b \in ZeroSpellings) =>
                   result.float.n = Whole(IF op = "*" THEN 0 ELSE 5).n

C1_Witness ==
    /\ event = Button("×")
    /\ entry_a = <<"5">>
    /\ entry_b = <<"0">>
    /\ result = Number(Whole(0))

(* C2: on operands that both parse, Divide shows DivisionByZero exactly    *)
(* when b is zero, whatever a is and however the zero is spelled, and      *)
(* Number(a / b) otherwise.                                                *)
C2_DivideByZeroIff ==
    (IsEval(event) /\ OpOf(event) = "/" /\ Parses(entry_a) /\ Parses(entry_b)) =>
        LET a == Operand(entry_a).val
            b == Operand(entry_b).val
        IN  /\ Completed
            /\ (result = DivisionByZero) <=> IsZeroValue(b)
            /\ ~IsZeroValue(b) => result = Number(FDiv(a, b))
            /\ entry_b \in ZeroSpellings => result = DivisionByZero
            /\ (entry_a = <<"1", "0">> /\ entry_b = <<"4">>) =>
                   result = Number(Halves(5))

C2_Witness ==
    /\ event = Button("÷")
    /\ entry_a = <<"0">>
    /\ entry_b = <<"-", "0">>
    /\ result = DivisionByZero

(* C3: when operand A or operand B does not parse after the commas are     *)
(* replaced, every operator shows InvalidInput whatever the other operand  *)
(* is; an unparseable A with a zero B under Divide shows InvalidInput.     *)
C3_InvalidInputFirst ==
    IsEval(event) =>
        /\ (~Parses(entry_a) \/ ~Parses(entry_b)) =>
               (result = InvalidInput /\ Completed)
        /\ (entry_a \in Unparseable \/ entry_b \in Unparseable) =>
               result = InvalidInput

C3_Witness ==
    /\ event = Button("÷")
    /\ entry_a = <<"a", "b", "c">>
    /\ entry_b = <<"0">>
    /\ result = InvalidInput

(* C4: an evaluation shows what the evaluation of the two texts with every *)
(* comma replaced by a period shows; a text with several commas shows      *)
(* InvalidInput.                                                           *)
C4_CommaNormalization ==
    IsEval(event) =>
        /\ result = Evaluate(OpOf(event), CommaToPeriod(entry_a),
                             CommaToPeriod(entry_b), Empty).res
        /\ (CommaCount(entry_a) > 1 \/ CommaCount(entry_b) > 1) =>
               result = InvalidInput
        /\ (entry_a = <<"3", ",", "1", "4">> /\ entry_b = <<"2">>) =>
               result.type = "float"

C4_Witness ==
    /\ event = Button("+")
    /\ entry_a = <<"2">>
    /\ entry_b = <<"3", ",", "1", "4">>
    /\ result = Number(FAdd(Whole(2), Operand(<<"3", ".", "1", "4">>).val))

(* C5: every evaluation of two texts completes: it sets the display once   *)
(* to a Number, DivisionByZero or InvalidInput and no exception leaves it. *)
C5_Total ==
    IsEval(event) =>
        /\ outcome.exc = "none"
        /\ outcome.sets = 1
        /\ \/ result.type = "float" /\ result.str = ""
           \/ result = DivisionByZero
           \/ result = InvalidInput

C5_Witness ==
    /\ event = Button("÷")
    /\ entry_a = <<"i", "n", "f">>
    /\ entry_b = <<"-", "i", "n", "f">>
    /\ result = Number(NaN)
    /\ Completed

(* C6: what an evaluation shows depends only on the two texts and the      *)
(* operator, not on what was shown before nor on earlier evaluations or    *)
(* clears; evaluating the same inputs a second time changes no part of     *)
(* the state.                                                              *)
C6_ShownByInputsOnly ==
    IsEval(event) => result = Evaluate(OpOf(event), entry_a, entry_b, Empty).res

C6_SecondEvaluationIdle ==
    (IsEval(event) /\ IsEval(event') /\ OpOf(event') = OpOf(event)) =>
        progState' = progState

C6_Deterministic == []C6_ShownByInputsOnly /\ [][C6_SecondEvaluationIdle]_vars

C6_Witness ==
    /\ event = Key("<Return>")
    /\ entry_a = <<"5">>
    /\ entry_b = <<"4">>
    /\ result = Number(Whole(9))

(* C7: after the clear action, from whatever state, both fields and the    *)
(* display are empty and the focus is on field A: the state is the         *)
(* initial state, also when clear follows clear.                           *)
C7_ClearResets ==
    IsClear(event) =>
        /\ entry_a = <<>>
        /\ entry_b = <<>>
        /\ result = Empty
        /\ focus = "entry_a"
        /\ progState = InitialState

C7_Witness ==
    /\ event = Key("<Escape>")
    /\ progState = InitialState
    /\ Completed

(* C8: a step of the Enter key is a step of the command of the Add         *)
(* button, whatever operator was used last, and a step of the Escape key   *)
(* is a step of the command of the clear button.                           *)
C8_KeyStep ==
    /\ event' = Key("<Return>") => cmd("+")
    /\ event' = Key("<Escape>") => clear

C8_KeyBindings == [][C8_KeyStep]_vars

C8_Witness ==
    /\ event = Key("<Return>")
    /\ entry_a = <<"9", "9">>
    /\ entry_b = <<"9", "9">>
    /\ result = Number(FAdd(Operand(<<"9", "9">>).val, Operand(<<"9", "9">>).val))

(* C9: the display is empty or shows a Number, the division-by-zero text   *)
(* or the invalid-input text, never the unknown-operator text; it is       *)
(* changed only by an evaluation, to what that evaluation yields, and by   *)
(* a clear, to the empty text.                                             *)
C9_DisplayKinds ==
    /\ \/ result = Empty
       \/ result.type = "float" /\ result.str = ""
       \/ result = DivisionByZero
       \/ result = InvalidInput
    /\ result # StrVal("Unbekannter Operator")
    /\ (result = Empty) => ~IsEval(event)

C9_DisplayStep ==
    IF IsEval(event')
    THEN result' = Evaluate(OpOf(event'), entry_a, entry_b, result).res
    ELSE IF IsClear(event') THEN result' = Empty
    ELSE result' = result

C9_DisplayInvariant == []C9_DisplayKinds /\ [][C9_DisplayStep]_vars

C9_Witness ==
    /\ event = Button("×")
    /\ entry_a = <<"4">>
    /\ entry_b = <<"5">>
    /\ result = Number(Whole(20))

(* C10: an evaluation leaves the two texts as typed, commas included, and  *)
(* the focus where it is, and sets the display once; an error text that    *)
(* is shown does not keep a following evaluation of parseable operands     *)
(* (with a nonzero divisor) from showing a Number.                         *)
C10_EvaluationStep ==
    IsEval(event') =>
        /\ entry_a' = entry_a
        /\ entry_b' = entry_b
        /\ focus' = focus
        /\ outcome'.sets = 1
        /\ (/\ result \in {DivisionByZero, InvalidInput}
            /\ Parses(entry_a)
            /\ Parses(entry_b)
            /\ ~(OpOf(event') = "/" /\ IsZeroValue(Operand(entry_b).val)))
           => result'.type = "float"

C10_Frame == [][C10_EvaluationStep]_vars

C10_Witness ==
    /\ event = Button("-")
    /\ entry_a = <<"3", ",", "1", "4">>
    /\ entry_b = <<"-", "0">>
    /\ focus = "entry_b"
    /\ result = Number(Operand(<<"3", ".", "1", "4">>).val)

=============================================================================
